---------------------------- MODULE Spec2Model ----------------------------
(***************************************************************************)
(* A model of ArmorCaptcha (services/utils/armor/anti_hcaptcha/core.py),   *)
(* the driver of an image-grid challenge: the label is read from the       *)
(* prompt, the tiles are mapped and downloaded, a recognizer is selected,  *)
(* the tiles are classified and clicked and the answer is submitted.       *)
(*                                                                         *)
(* Strings the code computes on (the prompt, the label) are sequences of   *)
(* character tokens.  An ASCII character is its own token; every other     *)
(* character has an ASCII name, listed with its code point below.          *)
(* Strings the code only compares or passes on (the canonical aliases,     *)
(* the outcomes, the exception names) are TLA+ strings.                    *)
(***************************************************************************)
EXTENDS Integers, Sequences, FiniteSets, TLC

(***************************************************************************)
(* Bounds of the model.                                                    *)
(***************************************************************************)
\* rounds one session may run (the caller's round budget)
MaxRounds == 2
\* tiles the challenge grid may show; a tile's alias is a number 1..MaxTiles
MaxTiles == 2
\* length of the raw labels label_cleaning is applied to in SpecLabel
MaxLabelLen == 2

(***************************************************************************)
(* Python values.                                                          *)
(***************************************************************************)
\* Python's None where a string is expected
None == "None"
\* the empty str, as a sequence of character tokens
EmptyStr == <<>>

(***************************************************************************)
(* A Python dict is a sequence of <<key, value>> pairs in insertion order. *)
(***************************************************************************)
Keys(d) == {d[i][1] : i \in 1..Len(d)}

HasKey(d, k) == \E i \in 1..Len(d) : d[i][1] = k

\* d.get(k, default); the caller tests HasKey where the default matters
DictGet(d, k, default) ==
    IF HasKey(d, k) THEN d[CHOOSE i \in 1..Len(d) : d[i][1] = k][2] ELSE default

\* d.update({k: v}): an existing key keeps its place, a new one goes last
DictUpdate(d, k, v) ==
    IF HasKey(d, k)
    THEN [i \in 1..Len(d) |-> IF d[i][1] = k THEN <<k, v>> ELSE d[i]]
    ELSE Append(d, <<k, v>>)

(***************************************************************************)
(* str operations on sequences of character tokens.                        *)
(***************************************************************************)
\* s.replace(old, new) for one-character old and new
StrReplace(s, old, new) == [i \in 1..Len(s) |-> IF s[i] = old THEN new ELSE s[i]]

\* s.replace(old, new, 1): only the first occurrence
StrReplaceFirst(s, old, new) ==
    [i \in 1..Len(s) |->
        IF s[i] = old /\ (\A j \in 1..(i - 1) : s[j] # old) THEN new ELSE s[i]]

\* s.replace(old, ""): every occurrence removed
StrRemove(s, old) == SelectSeq(s, LAMBDA c : c # old)

\* pat in s
StrContains(s, pat) ==
    \E i \in 1..(Len(s) - Len(pat) + 1) : SubSeq(s, i, i + Len(pat) - 1) = pat

Whitespace == {" "}

RECURSIVE StrStrip(_)
\* s.strip()
StrStrip(s) ==
    IF s = <<>> THEN s
    ELSE IF s[1] \in Whitespace THEN StrStrip(SubSeq(s, 2, Len(s)))
    ELSE IF s[Len(s)] \in Whitespace THEN StrStrip(SubSeq(s, 1, Len(s) - 1))
    ELSE s

RECURSIVE ReSplitChars(_, _)
\* re.split(r"[...]", s): split at every character of the class
ReSplitChars(s, class) ==
    IF \A i \in 1..Len(s) : s[i] \notin class THEN <<s>>
    ELSE LET i == CHOOSE k \in 1..Len(s) :
                      s[k] \in class /\ \A j \in 1..(k - 1) : s[j] \notin class
         IN  <<SubSeq(s, 1, i - 1)>> \o ReSplitChars(SubSeq(s, i + 1, Len(s)), class)

RECURSIVE ReSplitStr(_, _)
\* re.split(pat, s) for a literal pattern: split at every occurrence, left to right
ReSplitStr(s, pat) ==
    IF ~StrContains(s, pat) THEN <<s>>
    ELSE LET Here(k) == SubSeq(s, k, k + Len(pat) - 1) = pat
             i == CHOOSE k \in 1..(Len(s) - Len(pat) + 1) :
                      Here(k) /\ \A j \in 1..(k - 1) : ~Here(j)
         IN  <<SubSeq(s, 1, i - 1)>> \o ReSplitStr(SubSeq(s, i + Len(pat), Len(s)), pat)

(***************************************************************************)
(* Character tokens of the non-ASCII characters:                           *)
(*   cyr_a U+0430  cyr_e U+0435  cyr_i U+0456  grk_o U+03BF  cyr_c U+0441  *)
(*   cyr_d U+0501  cyr_s U+0455  cyr_h U+04BB  kata_dash U+30FC            *)
(*   yi_one U+4E00  tu_earth U+571F  shi_scholar U+58EB                    *)
(*   zi U+81EA  xing U+884C  che U+8F66  huo U+706B  ka U+5361             *)
(*   gong U+516C  jiao U+4EA4  ba U+5DF4  fei U+98DE  ji_machine U+673A    *)
(*   tiao U+6761  chuan U+8239  mo U+6469  tuo U+6258  chui U+5782         *)
(*   zhi U+76F4  he U+6CB3  liu U+6D41  tian U+5929  kong U+7A7A           *)
(*   zhong U+4E2D  xiang_toward U+5411  zuo U+5DE6  you_right U+53F3       *)
(*   de U+7684  qing U+8BF7  xuan U+9009  ze U+62E9  suo U+6240            *)
(*   you_have U+6709  qi U+6C7D  da U+5927  xiang_elephant U+8C61          *)
(*   niao U+9E1F  gou U+72D7  dian U+70B9  ji_hit U+51FB  mei U+6BCF       *)
(*   zhang U+5F20  bao U+5305  han U+542B  tu_picture U+56FE  pian U+7247  *)
(*   shui U+6C34  shang U+4E0A                                             *)
(***************************************************************************)

\* ArmorCaptcha.BAD_CODE, in the order of the dict literal
BAD_CODE ==
    << <<"cyr_a", "a">>, <<"cyr_e", "e">>, <<"e", "e">>, <<"i", "i">>,
       <<"cyr_i", "i">>, <<"grk_o", "o">>, <<"cyr_c", "c">>, <<"cyr_d", "d">>,
       <<"cyr_s", "s">>, <<"cyr_h", "h">>, <<"kata_dash", "yi_one">>,
       <<"tu_earth", "shi_scholar">> >>

\* ArmorCaptcha.label_alias as the class body sets it, in the order of the literal
StaticLabelAlias ==
    << << <<"zi", "xing", "che">>, "bicycle" >>,
       << <<"huo", "che">>, "train" >>,
       << <<"ka", "che">>, "truck" >>,
       << <<"gong", "jiao", "che">>, "bus" >>,
       << <<"ba", "shi_scholar">>, "bus" >>,
       << <<"fei", "ji_machine">>, "airplane" >>,
       << <<"yi_one", "tiao", "chuan">>, "boat" >>,
       << <<"chuan">>, "boat" >>,
       << <<"mo", "tuo", "che">>, "motorcycle" >>,
       << <<"chui", "zhi", "he", "liu">>, "vertical river" >>,
       << <<"tian", "kong", "zhong", "xiang_toward", "zuo", "fei", "xing", "de",
            "fei", "ji_machine">>, "airplane in the sky flying left" >>,
       << <<"qing", "xuan", "ze", "tian", "kong", "zhong", "suo", "you_have",
            "xiang_toward", "you_right", "fei", "xing", "de", "fei", "ji_machine">>,
          "airplanes in the sky that are flying to the right" >>,
       << <<"qi", "che">>, "car" >>,
       << <<"da", "xiang_elephant">>, "elephant" >>,
       << <<"niao">>, "bird" >>,
       << <<"gou">>, "dog" >> >>

(***************************************************************************)
(* get_label's helpers.                                                    *)
(***************************************************************************)
\* the scaffolding of the two languages
ZhScaffold == <<"bao", "han">>
ZhSplitClass == {"bao", "han", " ", "tu_picture", "pian"}
EnScaffold == <<"c", "o", "n", "t", "a", "i", "n", "i", "n", "g">>
EnSplitPattern == <<"c", "o", "n", "t", "a", "i", "n", "i", "n", "g", " ", "a">>

\* x[1:]
DropFirst(x) == SubSeq(x, 2, Len(x))
\* x[:-1]
DropLast(x) == SubSeq(x, 1, Len(x) - 1)

\* the "zh" entry of labels_mirror raises IndexError when the split has no third part
SplitRaisesIndexError(prompt_message) ==
    /\ StrContains(prompt_message, ZhScaffold)
    /\ Len(ReSplitChars(prompt_message, ZhSplitClass)) < 3

\* labels_mirror, both entries computed as the dict display computes them
labels_mirror(prompt_message) ==
    [zh |-> IF StrContains(prompt_message, ZhScaffold)
            THEN DropLast(ReSplitChars(prompt_message, ZhSplitClass)[3])
            ELSE prompt_message,
     en |-> IF StrContains(prompt_message, EnScaffold)
            THEN LET parts == ReSplitStr(prompt_message, EnSplitPattern)
                 IN  StrRemove(StrStrip(DropFirst(parts[Len(parts)])), ".")
            ELSE prompt_message]

\* split_prompt_message(prompt_message) as get_label calls it: _lang is "zh"
split_prompt_message(prompt_message) == labels_mirror(prompt_message).zh

RECURSIVE CleanFrom(_, _)
\* the loop of label_cleaning from the i-th entry of BAD_CODE on
CleanFrom(clean_label, i) ==
    IF i > Len(BAD_CODE) THEN clean_label
    ELSE CleanFrom(StrReplace(clean_label, BAD_CODE[i][1], BAD_CODE[i][2]), i + 1)

RECURSIVE CleanFirstFrom(_, _)
\* the same loop replacing only the first occurrence of each key
CleanFirstFrom(clean_label, i) ==
    IF i > Len(BAD_CODE) THEN clean_label
    ELSE CleanFirstFrom(StrReplaceFirst(clean_label, BAD_CODE[i][1], BAD_CODE[i][2]), i + 1)

\* a variant of label_cleaning that replaces one occurrence per key
label_cleaning_first(raw_label) == CleanFirstFrom(raw_label, 1)

\* label_cleaning(raw_label)
label_cleaning(raw_label) == CleanFrom(raw_label, 1)


(***************************************************************************)
(* The environment: the prompts the page may show, the vocabulary and the  *)
(* models the recognizer package may supply, the tiles of the grid.        *)
(***************************************************************************)
\* "<click every picture containing> bicycle", in Chinese
PromptZhBicycle ==
    <<"qing", "dian", "ji_hit", "mei", "zhang", "bao", "han", "zi", "xing", "che",
      "de", "tu_picture", "pian">>
\* "... containing vertical river"
PromptZhRiver ==
    <<"qing", "dian", "ji_hit", "mei", "zhang", "bao", "han", "chui", "zhi", "he",
      "liu", "de", "tu_picture", "pian">>
\* "... containing bus", its second character replaced by the homoglyph U+571F
PromptZhBusHomoglyph ==
    <<"qing", "dian", "ji_hit", "mei", "zhang", "bao", "han", "ba", "tu_earth",
      "de", "tu_picture", "pian">>
\* "... containing seaplane", a label the class body has no alias for
PromptZhSeaplane ==
    <<"qing", "dian", "ji_hit", "mei", "zhang", "bao", "han", "shui", "shang", "fei",
      "ji_machine", "de", "tu_picture", "pian">>
\* a prompt without the scaffolding that is itself a key of label_alias
PromptZhRightPlanes ==
    <<"qing", "xuan", "ze", "tian", "kong", "zhong", "suo", "you_have",
      "xiang_toward", "you_right", "fei", "xing", "de", "fei", "ji_machine">>
\* "Please click on all images containing a bicycle."
PromptEnBicycle ==
    <<"P", "l", "e", "a", "s", "e", " ", "c", "l", "i", "c", "k", " ", "o", "n", " ",
      "a", "l", "l", " ", "i", "m", "a", "g", "e", "s", " ", "c", "o", "n", "t", "a",
      "i", "n", "i", "n", "g", " ", "a", " ", "b", "i", "c", "y", "c", "l", "e", ".">>

\* a prompt element without text
PromptEmpty == <<>>

Prompts ==
    {PromptZhBicycle, PromptZhRiver, PromptZhBusHomoglyph, PromptZhSeaplane,
     PromptZhRightPlanes, PromptEnBicycle, PromptEmpty}

\* the label "seaplane" in Chinese and in English as a prompt would give them
LabelZhSeaplane == <<"shui", "shang", "fei", "ji_machine">>
LabelEnBicycle == <<"b", "i", "c", "y", "c", "l", "e">>

\* pom_handler.label_alias["zh"]: the vocabulary the objects file may add
PomVocabularies == { <<>>, << <<LabelZhSeaplane, "seaplane">> >> }

\* the aliases pom_handler.overload() may return a model for
OnnxAliases == {"bicycle", "seaplane", "vertical river"}

\* the aria-label values of the grid's tiles
Tiles == 1..MaxTiles

\* the element handle and the image address of tile a as round r's page gives them
Locator(r, a) == <<"element", r, a>>
Url(r, a) == <<"url", r, a>>

(***************************************************************************)
(* The class constants.                                                    *)
(***************************************************************************)
CHALLENGE_SUCCESS == "success"
CHALLENGE_CONTINUE == "continue"
CHALLENGE_CRASH == "crash"
CHALLENGE_RETRY == "retry"
CHALLENGE_REFRESH == "refresh"
CHALLENGE_BACKCALL == "backcall"

\* the keys of sk_solution in switch_solution
sk_solution ==
    {"vertical river", "airplane in the sky flying left",
     "airplanes in the sky that are flying to the right"}

\* a recognizer: its family and the key it was registered under
Recognizer(kind, key) == [kind |-> kind, key |-> key]
yolo_model == Recognizer("yolo", "yolo")
NoModel == Recognizer("none", "none")

(***************************************************************************)
(* The state.                                                              *)
(***************************************************************************)
VARIABLES
    pc,                     \* the step the session is at
    round,                  \* the number of the current round
    exception,              \* the exception that left the round, or None
    outcome,                \* the outcome of the last finished round, or None
    retreat,                \* what tactical_retreat returned this round, or None
    prompt,                 \* self.prompt
    label,                  \* self.label
    path_screenshot,        \* self.path_screenshot
    label_alias,            \* ArmorCaptcha.label_alias
    pluggable_onnx_models,  \* the keys of self.pluggable_onnx_models
    model,                  \* the recognizer switch_solution returned this round
    alias2locator,          \* self.alias2locator
    alias2url,              \* self.alias2url
    alias2path,             \* self.alias2path
    alias2answer,           \* self.alias2answer
    dom,                    \* the page of this round: its prompt, its tiles, the detached ones
    fetched,                \* the aliases whose image file this round has written
    fetch_calls,            \* the requests.get calls of this round
    classified,             \* the aliases model.solution was called for this round
    clicks,                 \* the clicks of this round: <<locator, how click() ended>>
    screenshots,            \* the screenshots saved this round
    submit,                 \* how the submit step of this round went, or None
    pending,                \* mark_samples: the samples its loop has not registered yet
    cb,                     \* anti_checkbox: its position, attempt, frame and result
    cl                      \* the run of label_cleaning SpecLabel follows

sessionVars ==
    <<pc, round, exception, outcome, retreat, prompt, label, path_screenshot,
      label_alias, pluggable_onnx_models, model, alias2locator, alias2url,
      alias2path, alias2answer, dom, fetched, fetch_calls, classified, clicks,
      screenshots, submit, pending, cb>>

vars == <<sessionVars, cl, pending, cb>>

registries == <<alias2locator, alias2url, alias2path, alias2answer>>
observed == <<fetched, fetch_calls, classified, clicks, screenshots, submit>>

NoDom == [samples |-> {}, detached |-> {}, prompt |-> "unseen"]
\* anti_checkbox not yet called: no attempt made, the driver in the top-level content
CbStart ==
    [pc |-> "for", i |-> 0, frame |-> "default", result |-> "none",
     returned |-> "pending"]
ClIdle == [stage |-> "idle", raw |-> <<>>, once |-> <<>>, twice |-> <<>>]

RECURSIVE UpdateAll(_, _)
\* dict.update(other)
UpdateAll(d, other) ==
    IF other = <<>> THEN d
    ELSE UpdateAll(DictUpdate(d, other[1][1], other[1][2]), Tail(other))

\* __init__: the fields, and label_alias extended by the package's vocabulary
InitSession ==
    /\ pc = "anti_checkbox"
    /\ round = 1
    /\ exception = None
    /\ outcome = None
    /\ retreat = None
    /\ prompt = EmptyStr
    /\ label = EmptyStr
    /\ path_screenshot = EmptyStr
    /\ \E voc \in PomVocabularies : label_alias = UpdateAll(StaticLabelAlias, voc)
    /\ pluggable_onnx_models \in SUBSET OnnxAliases
    /\ model = NoModel
    /\ alias2locator = <<>>
    /\ alias2url = <<>>
    /\ alias2path = <<>>
    /\ alias2answer = <<>>
    /\ dom = NoDom
    /\ fetched = {}
    /\ fetch_calls = 0
    /\ classified = {}
    /\ clicks = {}
    /\ screenshots = 0
    /\ submit = None
    /\ pending = <<>>
    /\ cb = CbStart

Init == InitSession /\ cl = ClIdle

(***************************************************************************)
(* The order of the steps of one round.  anti_captcha, which would call    *)
(* them, has no body in core.py; the order is the documented one:          *)
(* label, retreat check, recognizer, tiles, images, challenge, outcome.    *)
(***************************************************************************)
AfterStep(step, result) ==
    CASE step = "anti_checkbox" -> "get_label"
      [] step = "get_label" -> "tactical_retreat"
      [] step = "tactical_retreat" ->
            IF result = CHALLENGE_CONTINUE THEN "switch_solution" ELSE "done"
      [] step = "switch_solution" -> "mark_samples"
      [] step = "mark_samples" -> "download_images"
      [] step = "download_images" -> "challenge"
      [] step = "challenge" -> "challenge_success"
      [] step = "challenge_success" ->
            IF result = CHALLENGE_CONTINUE /\ round < MaxRounds
            THEN "get_label" ELSE "done"

\* the outcomes the check after a submission may give
SubmittedOutcomes ==
    {CHALLENGE_SUCCESS, CHALLENGE_CONTINUE, CHALLENGE_CRASH, CHALLENGE_RETRY,
     CHALLENGE_REFRESH}

\* an exception leaves the round
Raise(e) == pc' = "raised" /\ exception' = e

(***************************************************************************)
(* anti_checkbox, one step of the method at a time.  cb holds its position *)
(* (the for statement, the wait for the frame, the wait for and click of   *)
(* the checkbox, the finally clause, the exit), the attempts begun, the    *)
(* content the driver is switched to, how the try body of the attempt      *)
(* ended, and what the call gave.                                          *)
(***************************************************************************)

\* range(8)
CheckboxAttempts == 8

\* how the wait for and click of the checkbox may end: clicked, the click
\* intercepted, the wait timed out, or an exception no clause catches
CheckboxResults ==
    {"clicked", "ElementClickInterceptedException", "TimeoutException",
     "StaleElementReferenceException"}

\* a variant whose finally clause leaves the driver where it is
anti_checkbox_stays(frame) == frame

\* the content the driver is switched to when the finally clause has run
anti_checkbox_switches(frame) == "default"

\* what the call gives when the try body of an attempt ended with result:
\* "pending" when the loop goes on
anti_checkbox_returns(result) ==
    CASE result = "clicked" -> "True"
      [] result = "ElementClickInterceptedException" -> "False"
      [] result = "TimeoutException" -> "pending"
      [] OTHER -> "raised"

anti_checkbox_unchanged ==
    <<round, exception, outcome, retreat, prompt, label, path_screenshot,
      label_alias, pluggable_onnx_models, model, registries, dom, observed,
      cl, pending>>

\* for _ in range(8): the next attempt, or the end of the method (None)
anti_checkbox_for ==
    /\ pc = "anti_checkbox"
    /\ cb.pc = "for"
    /\ IF cb.i < CheckboxAttempts
       THEN cb' = [cb EXCEPT !.pc = "frame", !.i = cb.i + 1, !.result = "none"]
       ELSE cb' = [cb EXCEPT !.pc = "exit", !.returned = "None"]
    /\ UNCHANGED <<pc, anti_checkbox_unchanged>>

\* the wait for the frame of the checkbox: switched to it, or timed out
anti_checkbox_enter ==
    /\ pc = "anti_checkbox"
    /\ cb.pc = "frame"
    /\ \E available \in BOOLEAN :
          cb' = IF available
                THEN [cb EXCEPT !.pc = "click", !.frame = "checkbox"]
                ELSE [cb EXCEPT !.pc = "finally", !.result = "TimeoutException"]
    /\ UNCHANGED <<pc, anti_checkbox_unchanged>>

\* the wait for the checkbox and the click on it
anti_checkbox_click ==
    /\ pc = "anti_checkbox"
    /\ cb.pc = "click"
    /\ \E result \in CheckboxResults :
          cb' = [cb EXCEPT !.pc = "finally", !.result = result]
    /\ UNCHANGED <<pc, anti_checkbox_unchanged>>

\* finally: back to the top-level content, then what the try statement
\* had decided: return, raise, or on to the next attempt
anti_checkbox_finally ==
    /\ pc = "anti_checkbox"
    /\ cb.pc = "finally"
    /\ cb' = [cb EXCEPT
                !.frame = anti_checkbox_switches(cb.frame),
                !.returned = anti_checkbox_returns(cb.result),
                !.pc = IF anti_checkbox_returns(cb.result) = "pending"
                       THEN "for" ELSE "exit"]
    /\ UNCHANGED <<pc, anti_checkbox_unchanged>>

\* the call is over: its locals are gone, the caller goes on to the first
\* round, or the exception of the click leaves the session
anti_checkbox_exit ==
    /\ pc = "anti_checkbox"
    /\ cb.pc = "exit"
    /\ cb' = CbStart
    /\ IF cb.returned = "raised"
       THEN Raise(cb.result)
       ELSE pc' = AfterStep("anti_checkbox", None) /\ UNCHANGED exception
    /\ UNCHANGED <<round, outcome, retreat, prompt, label, path_screenshot,
                   label_alias, pluggable_onnx_models, model, registries, dom,
                   observed, cl, pending>>

(***************************************************************************)
(* get_label                                                               *)
(***************************************************************************)
\* a variant that stores the label as split from the prompt, not cleaned
get_label_stores_raw(prompt_message) == split_prompt_message(prompt_message)

\* the label get_label stores for a prompt it could split
get_label_stores(prompt_message) == label_cleaning(split_prompt_message(prompt_message))

\* how the wait for the prompt element and the read of its text may go:
\* no element within the wait, an element that is detached when its text
\* is read (a StaleElementReferenceException, which no handler of get_label
\* names), an element whose text is read
PromptAnswers == {"timeout", "unreadable", "text"}

get_label ==
    /\ pc = "get_label"
    /\ \E answer \in PromptAnswers, shown \in Prompts :
          /\ dom' = [dom EXCEPT !.prompt = answer]
          /\ CASE answer = "timeout" ->
                    /\ Raise("ChallengeReset")
                    /\ UNCHANGED <<prompt, label>>
               [] answer = "unreadable" ->
                    /\ Raise("StaleElementReferenceException")
                    /\ UNCHANGED <<prompt, label>>
               [] answer = "text" ->
                    /\ prompt' = shown
                    /\ IF SplitRaisesIndexError(shown)
                       THEN Raise("LabelNotFoundException") /\ UNCHANGED label
                       ELSE /\ label' = get_label_stores(shown)
                            /\ pc' = AfterStep("get_label", None)
                            /\ UNCHANGED exception
    /\ UNCHANGED <<round, outcome, retreat, path_screenshot, label_alias,
                   pluggable_onnx_models, model, registries, observed, cl,
                   pending, cb>>

(***************************************************************************)
(* tactical_retreat                                                        *)
(***************************************************************************)
\* the truth value of a str or None
Truthy(x) == x # None /\ x # ""

\* a variant that never retreats
tactical_retreat_never(lbl, aliases) == CHALLENGE_CONTINUE

\* the value tactical_retreat returns
tactical_retreat_returns(lbl, aliases) ==
    IF Truthy(DictGet(aliases, lbl, None))
    THEN CHALLENGE_CONTINUE
    ELSE CHALLENGE_BACKCALL

\* the path captcha_screenshot returns for a screenshot of round r
ScreenshotPath(r, name) == <<"captcha_screenshot", r, name>>

\* how the save of a screenshot may go: the file is written (by
\* ctx.screenshot, or by ctx.save_screenshot after an AttributeError), or
\* the driver fails to write it.  The output directory is taken to exist
\* or to be creatable.
ScreenshotResults == {"saved", "failed"}

\* a variant that lets the failure of the save out
captcha_screenshot_propagates(result) ==
    IF result = "saved" THEN None ELSE "WebDriverException"

\* the exception captcha_screenshot raises, None when it returns: the
\* return in its finally clause ends every outcome of the try statement
captcha_screenshot_raises(result) == None

\* With an alias the method returns at once.  Without one it looks for the
\* challenge container and takes its screenshot; a container that is not
\* found and a driver error are both caught, and the return in the finally
\* clause gives CHALLENGE_BACKCALL whatever happened before it.  The read
\* of ctx.current_url for the log line is taken to succeed.
tactical_retreat ==
    /\ pc = "tactical_retreat"
    /\ LET r == tactical_retreat_returns(label, label_alias) IN
          /\ retreat' = r
          /\ pc' = AfterStep("tactical_retreat", r)
          /\ IF r = CHALLENGE_CONTINUE
             THEN UNCHANGED <<path_screenshot, screenshots, outcome>>
             ELSE /\ outcome' = r
                  /\ \E container \in {"found", "NoSuchElementException",
                                       "WebDriverException"} :
                        IF container = "found"
                        THEN \E result \in ScreenshotResults :
                             /\ path_screenshot' = ScreenshotPath(round, "container")
                             /\ screenshots' = screenshots + (IF result = "saved" THEN 1 ELSE 0)
                        ELSE UNCHANGED <<path_screenshot, screenshots>>
    /\ UNCHANGED <<round, exception, prompt, label, label_alias,
                   pluggable_onnx_models, model, registries, dom, fetched,
                   fetch_calls, classified, clicks, submit, cl, pending, cb>>

(***************************************************************************)
(* switch_solution                                                         *)
(***************************************************************************)
\* a variant that asks the heuristics before the models
switch_solution_sk_first(lbl, aliases, onnx) ==
    LET a == DictGet(aliases, lbl, None) IN
    IF a \in sk_solution THEN Recognizer("sk", a)
    ELSE IF a \in onnx THEN Recognizer("onnx", a)
    ELSE yolo_model

\* the recognizer switch_solution returns
switch_solution_returns(lbl, aliases, onnx) ==
    LET a == DictGet(aliases, lbl, None) IN
    IF a \in onnx THEN Recognizer("onnx", a)
    ELSE IF a \in sk_solution THEN Recognizer("sk", a)
    ELSE yolo_model

switch_solution ==
    /\ pc = "switch_solution"
    /\ model' = switch_solution_returns(label, label_alias, pluggable_onnx_models)
    /\ pc' = AfterStep("switch_solution", None)
    /\ UNCHANGED <<round, exception, outcome, retreat, prompt, label,
                   path_screenshot, label_alias, pluggable_onnx_models,
                   registries, dom, observed, cl, pending, cb>>

(***************************************************************************)
(* mark_samples                                                            *)
(***************************************************************************)
RECURSIVE Ascending(_)
\* the tiles in the order find_elements returns them
Ascending(S) ==
    IF S = {} THEN <<>>
    ELSE LET m == CHOOSE x \in S : \A y \in S : x <= y
         IN  <<m>> \o Ascending(S \ {m})

RECURSIVE MarkUrls(_, _, _)
\* alias2url after the loop over the samples
MarkUrls(urls, samples, r) ==
    IF samples = <<>> THEN urls
    ELSE MarkUrls(DictUpdate(urls, samples[1], Url(r, samples[1])), Tail(samples), r)

\* a variant that registers the locator of the last sample only
MarkLocatorsLastOnly(locators, samples, r) ==
    IF samples = <<>> THEN locators
    ELSE DictUpdate(locators, samples[Len(samples)], Locator(r, samples[Len(samples)]))

RECURSIVE MarkLocators(_, _, _)
\* alias2locator after the loop over the samples
MarkLocators(locators, samples, r) ==
    IF samples = <<>> THEN locators
    ELSE MarkLocators(DictUpdate(locators, samples[1], Locator(r, samples[1])),
                      Tail(samples), r)

\* The loop over `todo`, the samples not registered yet, from the read of
\* the first one's style on.  A style that holds the url registers the
\* sample and the loop moves on; a style that does not (the image is not
\* rendered yet) makes the subscript of the split raise IndexError.  n is
\* the number of samples registered before the next malformed style is
\* read, all of them when none is.
MarkLoop(todo) ==
    \E n \in 0..Len(todo) :
       /\ alias2url' = MarkUrls(alias2url, SubSeq(todo, 1, n), round)
       /\ alias2locator' = MarkLocators(alias2locator, SubSeq(todo, 1, n), round)
       /\ pending' = SubSeq(todo, n + 1, Len(todo))
       /\ pc' = IF n = Len(todo) THEN AfterStep("mark_samples", None)
                ELSE "mark_samples_split"

\* the wait for the tiles, find_elements, and the loop up to its first IndexError
mark_samples ==
    /\ pc = "mark_samples"
    /\ \E present \in SUBSET Tiles :
          IF present = {}
          THEN \* no tile appears within the wait
               /\ Raise("TimeoutException")
               /\ UNCHANGED <<alias2locator, alias2url, dom, pending>>
          ELSE \E detached \in SUBSET present :
               /\ dom' = [dom EXCEPT !.samples = present, !.detached = detached]
               /\ MarkLoop(Ascending(present))
               /\ UNCHANGED exception
    /\ UNCHANGED <<round, outcome, retreat, prompt, label, path_screenshot,
                   label_alias, pluggable_onnx_models, model, alias2path,
                   alias2answer, observed, cl, cb>>

\* "except IndexError: continue": back to the top of the while True loop
mark_samples_split ==
    /\ pc = "mark_samples_split"
    /\ pc' = "mark_samples_read"
    /\ UNCHANGED <<round, exception, outcome, retreat, prompt, label,
                   path_screenshot, label_alias, pluggable_onnx_models, model,
                   registries, dom, observed, cl, pending, cb>>

\* the style of the same sample is read again, and the loop goes on from there
mark_samples_read ==
    /\ pc = "mark_samples_read"
    /\ MarkLoop(pending)
    /\ UNCHANGED <<round, exception, outcome, retreat, prompt, label,
                   path_screenshot, label_alias, pluggable_onnx_models, model,
                   alias2path, alias2answer, dom, observed, cl, cb>>

(***************************************************************************)
(* download_images                                                         *)
(***************************************************************************)
\* The loop fetches alias2url's entries in order and writes each image to
\* the round's workspace.  requests.get may raise; nothing catches it, so the
\* first fetch that raises ends the loop and leaves the round.  The loop
\* writes the files and nothing else: no registry is assigned.
\* the path of the image file of alias a in the workspace of round r
ImagePath(r, a) == <<"path", r, a>>

\* a variant that records a path for every tile of a full grid
download_paths_whole_grid(paths, urls, done, r) ==
    UpdateAll(paths, [a \in 1..MaxTiles |-> <<a, ImagePath(r, a)>>])

\* alias2path after the loop has written the first `done` images: as before
download_paths(paths, urls, done, r) == paths

download_images ==
    /\ pc = "download_images"
    /\ \E fail \in 0..Len(alias2url) :
          \* fail: the place of the first fetch that raises, 0 when none does
          LET done == IF fail = 0 THEN Len(alias2url) ELSE fail - 1 IN
          /\ fetch_calls' = fetch_calls + (IF fail = 0 THEN Len(alias2url) ELSE fail)
          /\ fetched' = {alias2url[i][1] : i \in 1..done}
          /\ alias2path' = download_paths(alias2path, alias2url, done, round)
          /\ IF fail = 0
             THEN pc' = AfterStep("download_images", None) /\ UNCHANGED exception
             ELSE Raise("RequestException")
    /\ UNCHANGED <<round, outcome, retreat, prompt, label, path_screenshot,
                   label_alias, pluggable_onnx_models, model, alias2locator,
                   alias2url, alias2answer, dom,
                   classified, clicks, screenshots, submit, cl, pending, cb>>

(***************************************************************************)
(* challenge                                                               *)
(***************************************************************************)
\* what locator.click() does: an element of an earlier page, or one the
\* page has detached since, is stale; any other may be clicked or may fail
ClickResults(locator) ==
    IF locator[2] # round \/ locator[3] \in dom.detached
    THEN {"StaleElementReferenceException"}
    ELSE {"clicked", "WebDriverException"}

\* the classification loop: model.solution for every key of alias2path, a
\* click on the locator of every positive one.  However a click ends, the
\* loop goes on: both kinds of click error are caught.  The name of the
\* alias and the locator are subscripted, a KeyError if either is missing.
challenge_classify ==
    /\ pc = "challenge"
    /\ LET paths == Keys(alias2path)
           AllResults == {"clicked", "WebDriverException", "StaleElementReferenceException"}
       IN  IF \E a \in paths : ~HasKey(label_alias, label) \/ ~HasKey(alias2locator, a)
           THEN Raise("KeyError") /\ UNCHANGED <<classified, clicks>>
           ELSE \E result \in [paths -> BOOLEAN], ended \in [paths -> AllResults] :
                  /\ \A a \in paths :
                        ended[a] \in ClickResults(DictGet(alias2locator, a, None))
                  /\ classified' = classified \cup paths
                  /\ clicks' = clicks \cup
                        {<<DictGet(alias2locator, a, None), ended[a]>> :
                            a \in {k \in paths : result[k]}}
                  /\ pc' = "challenge_screenshot"
                  /\ UNCHANGED exception
    /\ UNCHANGED <<round, outcome, retreat, prompt, label,
                   path_screenshot, label_alias, pluggable_onnx_models, model,
                   registries, dom, fetched, fetch_calls, screenshots, submit, cl, pending, cb>>

\* the screenshot named after the recognizer and the alias; the name needs
\* label_alias[label], a KeyError when the label has no alias
challenge_screenshot ==
    /\ pc = "challenge_screenshot"
    /\ IF HasKey(label_alias, label)
       THEN \E result \in ScreenshotResults :
            /\ screenshots' = screenshots + (IF result = "saved" THEN 1 ELSE 0)
            /\ IF captcha_screenshot_raises(result) = None
               THEN pc' = "challenge_submit" /\ UNCHANGED exception
               ELSE Raise(captcha_screenshot_raises(result))
       ELSE Raise("KeyError") /\ UNCHANGED screenshots
    /\ UNCHANGED <<round, outcome, retreat, prompt, label, path_screenshot,
                   label_alias, pluggable_onnx_models, model, registries, dom,
                   fetched, fetch_calls, classified, clicks, submit, cl, pending, cb>>

\* how the wait for the submit control and the click on it may end
SubmitResults ==
    {"clicked", "ElementClickInterceptedException", "TimeoutException",
     "WebDriverException"}

\* a variant that takes an intercepted click for a failure
challenge_submit_strict(result) ==
    IF result = "clicked" THEN None ELSE "SubmitException"

\* a variant that lets every failure of the submit step pass
challenge_submit_swallows(result) == None

\* the exception the submit step of challenge raises, None when it returns
challenge_submit_raises(result) ==
    IF result \in {"clicked", "ElementClickInterceptedException"}
    THEN None
    ELSE "SubmitException"

challenge_submit ==
    /\ pc = "challenge_submit"
    /\ \E result \in SubmitResults :
          /\ submit' = result
          /\ IF challenge_submit_raises(result) = None
             THEN pc' = AfterStep("challenge", None) /\ UNCHANGED exception
             ELSE Raise(challenge_submit_raises(result))
    /\ UNCHANGED <<round, outcome, retreat, prompt, label, path_screenshot,
                   label_alias, pluggable_onnx_models, model, registries, dom,
                   fetched, fetch_calls, classified, clicks, screenshots, cl, pending, cb>>

(***************************************************************************)
(* challenge_success: the outcome of a submitted round.  The method has no *)
(* body in core.py; the outcome is any of the documented ones, and a       *)
(* "continue" within the round budget starts the next round.               *)
(***************************************************************************)
challenge_success ==
    /\ pc = "challenge_success"
    /\ \E o \in SubmittedOutcomes :
          /\ outcome' = o
          /\ pc' = AfterStep("challenge_success", o)
          /\ IF AfterStep("challenge_success", o) = "get_label"
             THEN /\ round' = round + 1
                  /\ retreat' = None
                  /\ model' = NoModel
                  /\ dom' = NoDom
                  /\ fetched' = {}
                  /\ fetch_calls' = 0
                  /\ classified' = {}
                  /\ clicks' = {}
                  /\ screenshots' = 0
                  /\ submit' = None
             ELSE UNCHANGED <<round, retreat, model, dom, observed>>
    /\ UNCHANGED <<exception, prompt, label, path_screenshot, label_alias,
                   pluggable_onnx_models, registries, cl, pending, cb>>

Next ==
    \/ anti_checkbox_for
    \/ anti_checkbox_enter
    \/ anti_checkbox_click
    \/ anti_checkbox_finally
    \/ anti_checkbox_exit
    \/ get_label
    \/ tactical_retreat
    \/ switch_solution
    \/ mark_samples
    \/ mark_samples_split
    \/ mark_samples_read
    \/ download_images
    \/ challenge_classify
    \/ challenge_screenshot
    \/ challenge_submit
    \/ challenge_success

Spec == Init /\ [][Next]_vars

\* The session is one thread of control: as long as some step of the code
\* can be taken, one is taken.  What the page and the network answer is
\* chosen inside the steps and is under no fairness.
SpecFair == Spec /\ WF_vars(Next)

\* a call of anti_checkbox alone, on a session just constructed; the call
\* goes on while it can take a step
NextCheckbox ==
    \/ anti_checkbox_for
    \/ anti_checkbox_enter
    \/ anti_checkbox_click
    \/ anti_checkbox_finally
    \/ anti_checkbox_exit

SpecCheckbox == Init /\ [][NextCheckbox]_vars /\ WF_vars(NextCheckbox)

(***************************************************************************)
(* SpecLabel: label_cleaning applied once and twice to every raw label of  *)
(* at most MaxLabelLen characters over the characters of BAD_CODE.         *)
(***************************************************************************)
BadCodeAlphabet ==
    {BAD_CODE[i][1] : i \in 1..Len(BAD_CODE)} \cup {BAD_CODE[i][2] : i \in 1..Len(BAD_CODE)}

RawLabels == UNION {[1..n -> BadCodeAlphabet] : n \in 0..MaxLabelLen}

\* a session that runs no round
IdleSession ==
    /\ pc = "idle"
    /\ round = 1
    /\ exception = None
    /\ outcome = None
    /\ retreat = None
    /\ prompt = EmptyStr
    /\ label = EmptyStr
    /\ path_screenshot = EmptyStr
    /\ label_alias = StaticLabelAlias
    /\ pluggable_onnx_models = {}
    /\ model = NoModel
    /\ alias2locator = <<>>
    /\ alias2url = <<>>
    /\ alias2path = <<>>
    /\ alias2answer = <<>>
    /\ dom = NoDom
    /\ fetched = {}
    /\ fetch_calls = 0
    /\ classified = {}
    /\ clicks = {}
    /\ screenshots = 0
    /\ submit = None
    /\ pending = <<>>
    /\ cb = CbStart

InitLabel ==
    /\ IdleSession
    /\ \E raw \in RawLabels : cl = [stage |-> "raw", raw |-> raw, once |-> <<>>, twice |-> <<>>]

CleanOnce ==
    /\ cl.stage = "raw"
    /\ cl' = [cl EXCEPT !.stage = "once", !.once = label_cleaning(cl.raw)]
    /\ UNCHANGED sessionVars

CleanTwice ==
    /\ cl.stage = "once"
    /\ cl' = [cl EXCEPT !.stage = "twice", !.twice = label_cleaning(cl.once)]
    /\ UNCHANGED sessionVars

NextLabel == CleanOnce \/ CleanTwice

SpecLabel == InitLabel /\ [][NextLabel]_vars

(***************************************************************************)
(* The properties.                                                         *)
(***************************************************************************)
\* the steps of challenge after its classification loop, and the step after it
AfterClassification == {"challenge_screenshot", "challenge_submit", "challenge_success"}

\* the labels get_label can store from the prompts of the model, and the initial one
LabelsOfPrompts ==
    {label_cleaning(split_prompt_message(p)) : p \in Prompts} \cup {EmptyStr}

\* C1: a label without an entry in the alias mapping makes tactical_retreat
\* return CHALLENGE_BACKCALL and the round end with that outcome, with no
\* image fetched and no tile classified in the round; a label with an entry
\* makes it return CHALLENGE_CONTINUE.  Nothing is fetched or classified
\* before the retreat check either.
C1_RetreatBeforeFetch ==
    /\ retreat = None => fetch_calls = 0 /\ fetched = {} /\ classified = {}
    /\ retreat # None =>
          IF HasKey(label_alias, label)
          THEN retreat = CHALLENGE_CONTINUE
          ELSE /\ retreat = CHALLENGE_BACKCALL
               /\ outcome = CHALLENGE_BACKCALL
               /\ pc = "done"
               /\ fetch_calls = 0 /\ fetched = {} /\ classified = {}

\* a round that retreated on a label without an alias, its screenshot taken
C1_Witness ==
    /\ pc = "done"
    /\ retreat = CHALLENGE_BACKCALL
    /\ ~HasKey(label_alias, label)
    /\ screenshots = 1

\* C2: for every label, switch_solution returns the model registered under
\* the label's alias if there is one, else the heuristic of that alias if
\* there is one, else the fallback; it always returns a recognizer, also
\* for a label without an alias; and the recognizer of the round is the one
\* this priority gives for the round's label.  What it returns for every
\* label is looked at where it is called, with the mapping and the models
\* the session has then.
C2_SelectionPriority ==
    /\ pc = "switch_solution" => \A l \in LabelsOfPrompts :
          LET a == DictGet(label_alias, l, None)
              m == switch_solution_returns(l, label_alias, pluggable_onnx_models)
          IN  /\ m.kind \in {"onnx", "sk", "yolo"}
              /\ a \in pluggable_onnx_models => m.kind = "onnx" /\ m.key = a
              /\ a \notin pluggable_onnx_models /\ a \in sk_solution =>
                    m.kind = "sk" /\ m.key = a
              /\ m.kind = "yolo" => a \notin pluggable_onnx_models \cup sk_solution
              /\ ~HasKey(label_alias, l) => m = yolo_model
    /\ model # NoModel =>
          LET a == DictGet(label_alias, label, None) IN
          /\ a \in pluggable_onnx_models => model = Recognizer("onnx", a)
          /\ a \notin pluggable_onnx_models /\ a \in sk_solution =>
                model = Recognizer("sk", a)
          /\ a \notin pluggable_onnx_models \cup sk_solution => model = yolo_model

\* a round whose alias has a model and a heuristic: the model was selected
C2_Witness ==
    /\ model.kind = "onnx"
    /\ model.key \in sk_solution
    /\ model.key = DictGet(label_alias, label, None)

\* C3: once the classification loop of challenge is over, the recognizer has
\* been invoked for exactly the tiles the round fetched, and the clicked
\* locators are locators of classified tiles of this round's registry.
C3_ClassifyEveryFetchedTile ==
    pc \in AfterClassification =>
        /\ classified = fetched
        /\ \A c \in clicks : \E a \in classified : c[1] = DictGet(alias2locator, a, None)

\* C4: a submit step that ends in any error but a click interception makes
\* challenge raise SubmitException and the round stop there: the step itself
\* and every later step leave the clicks, the four tile registries and the
\* label as they were.
C4_SubmitFailureHalts ==
    [][/\ (pc = "challenge_submit" /\ submit' \in {"TimeoutException", "WebDriverException"})
            => /\ exception' = "SubmitException"
               /\ pc' = "raised"
               /\ UNCHANGED <<clicks, registries, label>>
       /\ submit \in {"TimeoutException", "WebDriverException"}
            => /\ exception = "SubmitException"
               /\ UNCHANGED <<pc, clicks, registries, label>>]_vars

\* a round whose wait for the submit control timed out
C4_Witness ==
    /\ submit = "TimeoutException"
    /\ exception = "SubmitException"
    /\ pc = "raised"

C6_RegistriesShareKeys ==
    /\ pc \in {"challenge"} \cup AfterClassification =>
          /\ Keys(alias2locator) = Keys(alias2url)
          /\ Keys(alias2path) = Keys(alias2url)
    /\ pc \in AfterClassification => Keys(alias2answer) = Keys(alias2url)

\* the steps of mark_samples
MarkPcs == {"mark_samples", "mark_samples_split", "mark_samples_read"}

\* C7: a step of mark_samples leaves alias2path, alias2answer and the label
\* unchanged and fetches no image, and when it returns, in any round,
\* alias2locator and alias2url have the same keys, the round's tiles among them.
C7_MarkSamplesKeySets ==
    [][(pc \in MarkPcs) =>
          /\ UNCHANGED <<alias2path, alias2answer, label, fetch_calls, fetched>>
          /\ pc' = "download_images" =>
                /\ Keys(alias2locator') = Keys(alias2url')
                /\ dom'.samples \subseteq Keys(alias2url')]_vars

\* mark_samples has returned in a later round whose tiles differ from the
\* tiles registered before
C7_Witness ==
    /\ pc = "download_images"
    /\ round > 1
    /\ dom.samples # Keys(alias2url)
    /\ Cardinality(Keys(alias2locator)) > 1

\* C8: label_cleaning applied to its own result gives that result again.
C8_CleaningIdempotent == cl.stage = "twice" => cl.twice = cl.once

\* a raw label the first pass changed in two places, cleaned twice
C8_Witness ==
    /\ cl.stage = "twice"
    /\ Len(cl.raw) > 1
    /\ \A i \in 1..Len(cl.raw) : cl.once[i] # cl.raw[i]

\* C9: for the English prompt "Please click on all images containing a
\* bicycle." get_label stores the label "bicycle", and the round does not
\* retreat.
C9_EnglishPromptLabel ==
    /\ (pc = "tactical_retreat" /\ prompt = PromptEnBicycle) => label = LabelEnBicycle
    /\ (retreat # None /\ prompt = PromptEnBicycle) => retreat = CHALLENGE_CONTINUE

\* C10: a fetch that fails does not raise out of the round, and
\* download_images goes on to fetch every other tile of alias2url.
C10_FetchFailureTolerated ==
    /\ exception # "RequestException"
    /\ pc \in {"challenge"} \cup AfterClassification => fetch_calls = Len(alias2url)

\* C11: every call of mark_samples ends: it returns or raises, also when
\* the style of a tile stays malformed.
C11_MarkSamplesTerminates == (pc \in MarkPcs) ~> (pc \notin MarkPcs)

\* C12: when mark_samples has returned in a later round, alias2locator and
\* alias2url hold the tiles of that round and nothing of an earlier one.
C12_RegistriesRebuiltEachRound ==
    (pc = "download_images" /\ round > 1) =>
        /\ Keys(alias2url) = dom.samples
        /\ Keys(alias2locator) = dom.samples
        /\ \A a \in dom.samples :
              /\ DictGet(alias2url, a, None) = Url(round, a)
              /\ DictGet(alias2locator, a, None) = Locator(round, a)

\* C13: get_label fails with ChallengeReset exactly when the prompt does
\* not appear within the wait, and with LabelNotFoundException when a
\* prompt appears whose text cannot be read or is empty.
C13_GetLabelFailures ==
    /\ dom.prompt = "timeout" <=> exception = "ChallengeReset"
    /\ dom.prompt = "unreadable" => exception = "LabelNotFoundException"
    /\ (dom.prompt = "text" /\ prompt = PromptEmpty) => exception = "LabelNotFoundException"
    /\ exception = "LabelNotFoundException" => dom.prompt \in {"unreadable", "text"}

\* C14: a click on the submit control that is intercepted raises nothing
\* out of challenge: the round goes on to its outcome as a submitted round.
C14_InterceptedSubmitTolerated ==
    submit = "ElementClickInterceptedException" =>
        /\ exception = None
        /\ pc \in {"challenge_success", "done"}

\* challenge has returned after an intercepted click on the submit control
C14_Witness ==
    /\ submit = "ElementClickInterceptedException"
    /\ pc = "challenge_success"

\* the steps of challenge
ChallengePcs == {"challenge", "challenge_screenshot", "challenge_submit"}

\* C16: whenever challenge is entered or has classified, clicked or
\* submitted in the round, the label of the session has an entry in
\* label_alias.
C16_ChallengeOnlyWithAlias ==
    (pc \in ChallengePcs \/ classified # {} \/ clicks # {} \/ submit # None) =>
        HasKey(label_alias, label)

\* challenge is about to submit for a label the cleaning has repaired
C16_Witness ==
    /\ pc = "challenge_submit"
    /\ label = <<"ba", "shi_scholar">>
    /\ HasKey(label_alias, label)

\* C17: once download_images has returned or raised, in any round, every
\* key of alias2path is a key of alias2url.
C17_PathsAmongUrls ==
    (pc \in {"challenge"} \cup AfterClassification \/ exception = "RequestException") =>
        Keys(alias2path) \subseteq Keys(alias2url)

\* download_images has returned in a later round, having fetched images
C17_Witness ==
    /\ pc = "challenge"
    /\ round > 1
    /\ fetched # {}
    /\ Keys(alias2path) \subseteq Keys(alias2url)

C20_CheckboxState ==
    /\ cb.i \in 0..CheckboxAttempts
    /\ cb.pc \in {"for", "exit"} => cb.frame = "default"
    /\ (cb.pc = "for" /\ cb.i > 0) => cb.result = "TimeoutException"
    /\ cb.pc = "exit" =>
         /\ cb.returned \in {"True", "False", "None", "raised"}
         /\ cb.returned = "True" <=> cb.result = "clicked"
         /\ cb.returned = "False" <=> cb.result = "ElementClickInterceptedException"
         /\ cb.returned = "None" <=> cb.result = "TimeoutException"
         /\ cb.returned = "None" => cb.i = CheckboxAttempts

\* C20: anti_checkbox makes at most 8 attempts and always comes to an end;
\* it gives True as soon as an attempt clicks the checkbox, False as soon as
\* a click is intercepted and no value after 8 attempts that timed out, and
\* after every attempt and on every way out the driver is back in the
\* top-level content.
C20_AntiCheckboxBounded ==
    /\ []C20_CheckboxState
    /\ (pc = "anti_checkbox") ~> (pc # "anti_checkbox")

\* the call has ended with no value after 8 attempts that timed out
C20_Witness ==
    /\ pc = "anti_checkbox"
    /\ cb.pc = "exit"
    /\ cb.returned = "None"
    /\ cb.i = CheckboxAttempts
    /\ cb.frame = "default"

\* C19: the label of the session is written by get_label only, and only
\* by a call that returns: every step of anti_checkbox, tactical_retreat,
\* switch_solution, mark_samples, download_images and challenge leaves it
\* as it is, a call of get_label that raises leaves it as it is, and after
\* a call that returns the label is the cleaned extraction of the prompt
\* that call has read.
C19_LabelWrittenByGetLabel ==
    [][/\ label' # label => pc = "get_label" /\ pc' = "tactical_retreat"
       /\ (pc = "get_label" /\ pc' = "raised") => label' = label
       /\ (pc = "get_label" /\ pc' = "tactical_retreat")
            => /\ prompt' \in Prompts
               /\ label' = label_cleaning(split_prompt_message(prompt'))]_vars

\* get_label has failed in the second round, and the label is still the
\* one the first round read from a prompt with a look-alike character
C19_Witness ==
    /\ pc = "raised"
    /\ exception = "ChallengeReset"
    /\ round = 2
    /\ prompt = PromptZhBusHomoglyph
    /\ label = label_cleaning(split_prompt_message(PromptZhBusHomoglyph))
    /\ label # split_prompt_message(PromptZhBusHomoglyph)

\* C15: the outcome of a round is one of success, continue, crash, retry,
\* refresh and backcall; a new round is begun only after the outcome
\* continue and within the round budget; and every session comes to a
\* stop: a terminal outcome, an exhausted budget or an exception.
C15_SessionStops ==
    /\ [](/\ outcome \in {None, CHALLENGE_BACKCALL} \cup SubmittedOutcomes
          /\ retreat \in {None, CHALLENGE_CONTINUE, CHALLENGE_BACKCALL}
          /\ round \in 1..MaxRounds)
    /\ [][round' # round =>
            /\ outcome' = CHALLENGE_CONTINUE
            /\ round' = round + 1]_vars
    /\ <>(pc \in {"done", "raised"})

=============================================================================
